---- MODULE Spec2Model ----
(***************************************************************************)
(* Model of the wz-rust wrappers around the native WZ parser.              *)
(*                                                                         *)
(*   Spec      the handle wrappers of src/src/wz.rs (WzCtx, WzFile,        *)
(*             WzNode, WzNodeIter): construction, navigation, shrink and   *)
(*             drops, in every order safe Rust lets a caller take them.    *)
(*   SpecArch  the same wrappers without node navigation: contexts,        *)
(*             archives and their roots.                                   *)
(*   SpecOpen  one call of open_file (wz.rs WzCtx::open_file, lib.rs       *)
(*             open_file) on a path.                                       *)
(*   SpecIter  the three child iterators (wz.rs, node.rs, lib.rs) over     *)
(*             one node.                                                   *)
(*   SpecAcc   the typed accessors, len and child_at of one node.          *)
(*   SpecNav   path navigation with child (wz.rs) and open_node (lib.rs)   *)
(*             from the root of a native tree.                             *)
(*   SpecConc  threads calling lib.rs open_file on the global context.     *)
(*                                                                         *)
(* The native parser (libwz, compiled by build.rs) is an external          *)
(* collaborator: its entry points follow sections 4 and 6 of the           *)
(* specification, and every result it can hand back is an input.           *)
(***************************************************************************)
EXTENDS Integers, Sequences, FiniteSets, TLC

\* ---------------------------------------------------------------- bounds
MaxFiles == 2
MaxNodes == 2
MaxClose == 2
MaxFrees == 2
MaxKids == 1
MaxLen == 2
MaxPathLen == 2
MaxNone == 2
MaxDepth == 3
MaxArgLen == 3
MaxThreads == 2
MaxCalls == 2

\* ------------------------------------------------------- Dtype (node.rs)
NIL == 0
I16 == 1
I32 == 2
I64 == 3
F32 == 4
F64 == 5
VEC == 6
UNK == 7
ARY == 8
IMG == 9
VEX == 10
AO == 11
UOL == 12
STR == 13

Dtype == {NIL, I16, I32, I64, F32, F64, VEC, UNK, ARY, IMG, VEX, AO, UOL, STR}

\* The tags whose nodes have children (spec 3, child_count).
Container == {ARY, IMG}

VARIABLES
    ctxSt,      \* the WzCtx wrapper: "none", "live", "dropped"
    ctxFrees,   \* calls of wz_free_ctx on its handle
    file,       \* WzFile wrappers: [st, closes, afterDrop]
    node,       \* WzNode wrappers: [st, file, closes, leaked, frees, tag, len]
    iter,       \* the WzNodeIter: [st, base, index]
    aborted,    \* "no", or "ub": crashed after undefined behaviour
    opPath, opPtr, opRes,
    itImpl, itTag, itLen, itFail, itIndex, itYield, itAfter, itNone,
    itPath,     \* the diagnostic path of the node iterated
    itNames,    \* what wz_get_name gives for each child
    itItems,    \* the WzNode items yielded: [idx, path, name]
    accTag, accLen, accRes,
    accNode,    \* the WzNode the accessors are called on: [pointer, path]
    accPrev,    \* how the call before the last one ended
    navNode,    \* the WzNode a caller navigated to: [pos, path]
    navArg,     \* the arguments of the child calls that led there, '/'-joined
    navRes,     \* the last navigation call and what it gave
    thr,        \* threads calling lib.rs open_file: [pc, calls, ctx]
    cell,       \* the OnceCell of init_ctx: [st, ctx]
    mutex,      \* the thread holding the Mutex, 0 for none
    initCalls,  \* calls of wz_init_ctx
    passed      \* the context handles passed to wz_open_file

lifeVars == <<ctxSt, ctxFrees, file, node, iter, aborted>>
openVars == <<opPath, opPtr, opRes>>
iterVars == <<itImpl, itTag, itLen, itFail, itIndex, itYield, itAfter, itNone,
              itPath, itNames, itItems>>
accVars == <<accTag, accLen, accRes, accNode, accPrev>>
navVars == <<navNode, navArg, navRes>>
concVars == <<thr, cell, mutex, initCalls, passed>>
vars == <<lifeVars, openVars, iterVars, accVars, navVars, concVars>>

Files == 1..MaxFiles
Nodes == 1..MaxNodes

\* ------------------------------------------------------------ native layer
\* wz_get_len: status 0 and the child count for a container, a non-zero
\* status (the out parameter untouched) for every other tag.
ErrStatus == {-1, 1, 2}

wz_get_len(tag, nlen, st) ==
    IF tag \in Container THEN [ret |-> 0, len |-> nlen] ELSE [ret |-> st, len |-> 0]

\* wz_open_node_at: the child's handle, or null (FALSE) for a node that is
\* no container, an index out of bounds, or a lookup the parser fails.
wz_open_node_at(tag, nlen, i, fails) ==
    tag \in Container /\ i < nlen /\ ~fails

\* wz_open_node: the handle of the descendant a path names, or null (FALSE)
\* when a segment does not exist or the node has no children.
wz_open_node(tag, found) == tag \in Container /\ found

\* ------------------------------------------------- paths and CString::new
\* Path bytes: NUL, '/', 'a', and 0xFF, which no UTF-8 text contains.
PathBytes == {0, 47, 97, 255}

Paths == UNION {[1..k -> PathBytes] : k \in 0..MaxPathLen}

HasNul(p) == \E k \in 1..Len(p) : p[k] = 0

\* str::from_utf8 / Path::to_str over PathBytes: the ASCII bytes are valid,
\* 0xFF never is.
IsUtf8(p) == \A k \in 1..Len(p) : p[k] < 128

\* A &str argument is UTF-8 by construction.
StrPaths == {p \in Paths : IsUtf8(p)}

\* CString::new: Err(NulError) on an interior NUL, else the bytes with the
\* terminator appended.
CStringNew(p) ==
    IF HasNul(p) THEN [ok |-> FALSE, bytes |-> <<>>]
    ELSE [ok |-> TRUE, bytes |-> Append(p, 0)]

\* ---------------------------------------------------------------- wz.rs
\* WzNode::len: the native count on status 0, else 0.
WzNode_len(tag, nlen, st) ==
    LET r == wz_get_len(tag, nlen, st) IN IF r.ret = 0 THEN r.len ELSE 0

\* WzNode::child_at: NonNull::new(node).map(..): Some exactly for a non-null
\* native result.
None == [some |-> FALSE, idx |-> 0]
Some(i) == [some |-> TRUE, idx |-> i]

\* child_at without the NonNull check: a null native result is wrapped too.
child_at_Unchecked(tag, nlen, i, fails) == Some(i)

child_at(tag, nlen, i, fails) ==
    IF wz_open_node_at(tag, nlen, i, fails) THEN Some(i) ELSE None

\* wz_get_name: a null pointer, or the bytes of a C string (which a
\* damaged archive may fill with anything).
NameResults ==
    {[null |-> TRUE, bytes |-> <<>>]} \cup
    {[null |-> FALSE, bytes |-> b] : b \in {<<97>>, <<255>>, <<97, 255>>}}

\* A decoder that keeps the bytes it can decode.
name_Lossy(nm) == [kind |-> "Ok", val |-> SelectSeq(nm.bytes, LAMBDA b : b < 128)]

\* WzNode::name: bail! on a null pointer; CStr::to_str()? fails on bytes
\* that are not UTF-8; else Ok(Some(s)).
name(nm) ==
    IF nm.null THEN [kind |-> "Err", val |-> <<>>]
    ELSE IF ~IsUtf8(nm.bytes) THEN [kind |-> "Err", val |-> <<>>]
    ELSE [kind |-> "Ok", val |-> nm.bytes]

\* WzNode::child_at, the closure run on a non-null child: the name read
\* from the new node, "" unless name() is Ok(Some(..)), and the path
\* format!("{}/{}", self_path, node_name).
child_at_path(self_path, nm) ==
    LET r == name(nm) IN
    self_path \o <<47>> \o (IF r.kind = "Ok" THEN r.val ELSE <<>>)

\* WzNodeIter::next: None once index >= base.len(); else child_at(index)
\* with index += 1 (no u32 overflow: index < len here). failset: the
\* indices whose native lookup fails.
WzNodeIter_step(index, tag, nlen, failset, st) ==
    IF index >= WzNode_len(tag, nlen, st) THEN [index |-> index, item |-> None]
    ELSE [index |-> index + 1,
          item |-> child_at(tag, nlen, index, index \in failset)]

NoFile == [st |-> "none", closes |-> 0, afterDrop |-> FALSE]
NoNode == [st |-> "none", file |-> 0, closes |-> 0, leaked |-> FALSE,
           frees |-> 0, tag |-> NIL, len |-> 0]
NoIter == [st |-> "none", base |-> 0, index |-> 0]

\* The native nodes the lifecycle draws: an array or a leaf.
NodeShapes == {<<ARY, n>> : n \in 0..MaxKids} \cup {<<STR, 0>>}

FreeFiles == {f \in Files : file[f].st = "none"}
FreeNodes == {n \in Nodes : node[n].st = "none"}

NextFile == CHOOSE f \in FreeFiles : \A g \in FreeFiles : f <= g
NextNode == CHOOSE n \in FreeNodes : \A m \in FreeNodes : n <= m

NewNode(f, leaked, shape) ==
    [st |-> "live", file |-> f, closes |-> 0, leaked |-> leaked, frees |-> 0,
     tag |-> shape[1], len |-> shape[2]]

\* A live WzFile whose context was freed; a live WzNode whose file was closed.
FileDangling(f) == file[f].st = "live" /\ ctxSt = "dropped"
NodeDangling(n) == node[n].st = "live" /\ file[node[n].file].st = "dropped"

\* A wrapper whose Box was freed by WzNodeIter::drop is read through a
\* dangling reference: the read finds the old bytes or the process crashes.
Freed(n) == node[n].frees > 0

InitLife ==
    /\ ctxSt = "none"
    /\ ctxFrees = 0
    /\ file = [f \in Files |-> NoFile]
    /\ node = [n \in Nodes |-> NoNode]
    /\ iter = NoIter
    /\ aborted = "no"

IdleIter ==
    /\ itImpl = "none" /\ itTag = NIL /\ itLen = 0 /\ itFail = {}
    /\ itIndex = 0 /\ itYield = <<>> /\ itAfter = <<>> /\ itNone = 0
    /\ itPath = <<>> /\ itNames = <<>> /\ itItems = <<>>

NoRes == [op |-> "none", arg |-> 0, kind |-> "none", ret |-> 0, val |-> <<>>]

IdleAcc ==
    /\ accTag = NIL /\ accLen = 0 /\ accRes = NoRes
    /\ accNode = [pointer |-> 1, path |-> <<>>] /\ accPrev = "none"

\* WzFile::open_root: WzNode::new(root, ""): the root of the native tree,
\* with the empty diagnostic path.
RootNode == [pos |-> <<>>, path |-> <<>>]

NoNav == [op |-> "none", arg |-> <<>>, out |-> "none", self |-> RootNode]

IdleNav == navNode = RootNode /\ navArg = <<>> /\ navRes = NoNav

Threads == 1..MaxThreads

\* No thread has called open_file yet; the static OnceCell is empty.
IdleConc ==
    /\ thr = [t \in Threads |-> [pc |-> "idle", calls |-> 0, ctx |-> 0]]
    /\ cell = [st |-> "empty", ctx |-> 0]
    /\ mutex = 0
    /\ initCalls = 0
    /\ passed = {}

LifeFrame == UNCHANGED <<openVars, iterVars, accVars, navVars, concVars>>

\* WzCtx::new: wz_init_ctx, Ok for a non-null pointer, else bail!.
WzCtx_new ==
    /\ aborted = "no" /\ ctxSt = "none"
    /\ \E ptr \in BOOLEAN :
          ctxSt' = IF ptr THEN "live" ELSE "none"
    /\ UNCHANGED <<ctxFrees, file, node, iter, aborted>>
    /\ LifeFrame

\* WzCtx::open_file(&self, path): CString::new(path)? returns Err before
\* any native call; else wz_open_file runs and a null result is Ok(None),
\* a non-null one Ok(Some(WzFile)). ptr: the native result is non-null.
WzCtx_open_file_result(p, ptr) ==
    LET c == CStringNew(p) IN
    IF ~c.ok THEN [out |-> "Err", native |-> FALSE, cstr |-> <<>>]
    ELSE [out |-> IF ptr THEN "OkSome" ELSE "OkNone", native |-> TRUE, cstr |-> c.bytes]

WzCtx_open_file ==
    /\ aborted = "no" /\ ctxSt = "live"
    /\ \E out \in {WzCtx_open_file_result(p, ptr).out : p \in StrPaths, ptr \in BOOLEAN} :
          IF out = "OkSome" THEN
              /\ FreeFiles # {}
              /\ file' = [file EXCEPT ![NextFile] =
                              [st |-> "live", closes |-> 0,
                               afterDrop |-> \E g \in Files : file[g].st = "dropped"]]
          ELSE
              /\ file' = file
    /\ UNCHANGED <<ctxSt, ctxFrees, node, iter, aborted>>
    /\ LifeFrame

\* Drop for WzCtx: wz_free_ctx(self.pointer). WzFile holds no borrow of the
\* WzCtx, so the drop is open to the caller whatever files are live.
Drop_WzCtx ==
    /\ aborted = "no" /\ ctxSt = "live"
    /\ ctxSt' = "dropped"
    /\ ctxFrees' = ctxFrees + 1
    /\ UNCHANGED <<file, node, iter, aborted>>
    /\ LifeFrame

\* WzFile::open_root<'a>(&self): wz_open_root, the node boxed and leaked; 'a
\* is not tied to &self.
WzFile_open_root(f) ==
    /\ aborted = "no" /\ file[f].st = "live"
    /\ \E ptr \in BOOLEAN, shape \in NodeShapes :
          IF ptr THEN
              /\ FreeNodes # {}
              /\ node' = [node EXCEPT ![NextNode] = NewNode(f, TRUE, shape)]
          ELSE
              /\ node' = node
    /\ UNCHANGED <<ctxSt, ctxFrees, file, iter, aborted>>
    /\ LifeFrame

\* A drop of the WzFile that frees the context with it.
Drop_WzFile_FreesCtx(f) ==
    /\ aborted = "no" /\ file[f].st = "live"
    /\ file' = [file EXCEPT ![f].st = "dropped", ![f].closes = @ + 1]
    /\ ctxFrees' = ctxFrees + 1
    /\ UNCHANGED <<ctxSt, node, iter, aborted>>
    /\ LifeFrame

\* Drop for WzFile: wz_close_file(self.pointer). Neither the leaked root
\* nor a Box<WzNode> borrows the WzFile.
Drop_WzFile(f) ==
    /\ aborted = "no" /\ file[f].st = "live"
    /\ file' = [file EXCEPT ![f].st = "dropped", ![f].closes = @ + 1]
    /\ UNCHANGED <<ctxSt, ctxFrees, node, iter, aborted>>
    /\ LifeFrame

\* What a use of wrapper n does to the process: nothing when its memory is
\* intact; after WzNodeIter::drop freed it, it goes on or crashes.
UseOutcomes(n) == IF Freed(n) THEN {"no", "ub"} ELSE {"no"}

\* WzNode::child (path lookup) and WzNode::child_at (index lookup): a
\* non-null native result becomes a fresh Box<WzNode>. found: the path
\* names a descendant.
WzNode_child(n) ==
    /\ aborted = "no" /\ node[n].st = "live"
    /\ \E out \in UseOutcomes(n), found \in BOOLEAN, shape \in NodeShapes :
          /\ aborted' = out
          /\ IF out = "no" /\ wz_open_node(node[n].tag, found) THEN
                 /\ FreeNodes # {}
                 /\ node' = [node EXCEPT ![NextNode] = NewNode(node[n].file, FALSE, shape)]
             ELSE
                 /\ node' = node
    /\ UNCHANGED <<ctxSt, ctxFrees, file, iter>>
    /\ LifeFrame

WzNode_child_at(n) ==
    /\ aborted = "no" /\ node[n].st = "live"
    /\ \E out \in UseOutcomes(n), i \in 0..MaxKids, fails \in BOOLEAN, shape \in NodeShapes :
          /\ aborted' = out
          /\ IF out = "no" /\ child_at(node[n].tag, node[n].len, i, fails).some THEN
                 /\ FreeNodes # {}
                 /\ node' = [node EXCEPT ![NextNode] = NewNode(node[n].file, FALSE, shape)]
             ELSE
                 /\ node' = node
    /\ UNCHANGED <<ctxSt, ctxFrees, file, iter>>
    /\ LifeFrame

\* WzNode::shrink(&self): wz_close_node(self.pointer), unconditionally.
shrink(n) ==
    /\ aborted = "no" /\ node[n].st = "live"
    /\ node[n].closes < MaxClose
    /\ \E out \in UseOutcomes(n) :
          /\ aborted' = out
          /\ node' = IF out = "no" THEN [node EXCEPT ![n].closes = @ + 1] ELSE node
    /\ UNCHANGED <<ctxSt, ctxFrees, file, iter>>
    /\ LifeFrame

\* Scope exit of a node: WzNode has no Drop, so no native call is made. A
\* Box<WzNode> frees its memory; a leaked root reference frees nothing. A
\* live iterator borrows its base. The native node is out of reach through
\* this wrapper from here on (its tag and len are forgotten).
Drop_WzNode(n) ==
    /\ aborted = "no" /\ node[n].st = "live"
    /\ ~(iter.st = "live" /\ iter.base = n)
    /\ node[n].leaked \/ node[n].frees < MaxFrees
    /\ \E out \in (IF Freed(n) /\ ~node[n].leaked THEN {"no", "ub"} ELSE {"no"}) :
          /\ aborted' = out
          /\ node' = [node EXCEPT ![n].st = "dropped", ![n].tag = NIL, ![n].len = 0,
                                  ![n].frees = IF node[n].leaked THEN @ ELSE @ + 1]
    /\ UNCHANGED <<ctxSt, ctxFrees, file, iter>>
    /\ LifeFrame

\* WzNode::iter / WzNodeIter::new: index 0 over a borrow of the node.
WzNode_iter(n) ==
    /\ aborted = "no" /\ node[n].st = "live" /\ iter.st = "none"
    /\ iter' = [st |-> "live", base |-> n, index |-> 0]
    /\ UNCHANGED <<ctxSt, ctxFrees, file, node, aborted>>
    /\ LifeFrame

\* WzNodeIter::next: None at index >= base.len(); else child_at(index),
\* index += 1.
WzNodeIter_next ==
    /\ aborted = "no" /\ iter.st = "live"
    /\ LET n == iter.base IN
       \E out \in UseOutcomes(n), st \in ErrStatus, fails \in BOOLEAN, shape \in NodeShapes :
          LET r == WzNodeIter_step(iter.index, node[n].tag, node[n].len,
                                   IF fails THEN {iter.index} ELSE {}, st) IN
          /\ aborted' = out
          /\ iter' = IF out = "no" THEN [iter EXCEPT !.index = r.index] ELSE iter
          /\ IF out = "no" /\ r.item.some THEN
                 /\ FreeNodes # {}
                 /\ node' = [node EXCEPT ![NextNode] = NewNode(node[n].file, FALSE, shape)]
             ELSE
                 /\ node' = node
    /\ UNCHANGED <<ctxSt, ctxFrees, file>>
    /\ LifeFrame

\* Drop for WzNodeIter: Box::from_raw(self.base), dropped at once: the
\* base wrapper's memory is freed whoever owns it.
Drop_WzNodeIter ==
    /\ aborted = "no" /\ iter.st = "live"
    /\ node[iter.base].frees < MaxFrees
    /\ LET n == iter.base IN
       \E out \in UseOutcomes(n) :
          /\ aborted' = out
          /\ node' = [node EXCEPT ![n].frees = @ + 1]
    /\ iter' = NoIter
    /\ UNCHANGED <<ctxSt, ctxFrees, file>>
    /\ LifeFrame

\* ---------------------------------------------------- opening an archive
\* lib.rs open_file(path: &Path): path.to_str().unwrap() panics on a path
\* that is not UTF-8, CString::new(..).expect("path") panics on an interior
\* NUL; else wz_open_file runs with the global context: Some(f) for a
\* non-null result, None for null.
open_file_result(p, ptr) ==
    IF ~IsUtf8(p) THEN [out |-> "panic", native |-> FALSE, cstr |-> <<>>]
    ELSE LET c == CStringNew(p) IN
         IF ~c.ok THEN [out |-> "panic", native |-> FALSE, cstr |-> <<>>]
         ELSE [out |-> IF ptr THEN "Some" ELSE "None", native |-> TRUE, cstr |-> c.bytes]

NoOpen == [api |-> "none", out |-> "none", native |-> FALSE, cstr |-> <<>>]

IdleOpen == opPath = <<>> /\ opPtr = FALSE /\ opRes = NoOpen

\* One call of an open routine on a path, the native answer for it given.
InitOpen == opPath \in Paths /\ opPtr \in BOOLEAN /\ opRes = NoOpen

Call_WzCtx_open_file ==
    /\ opRes.api = "none" /\ opPath \in StrPaths
    /\ opRes' = [api |-> "wz"] @@ WzCtx_open_file_result(opPath, opPtr)
    /\ UNCHANGED <<opPath, opPtr, lifeVars, iterVars, accVars, navVars, concVars>>

Call_open_file ==
    /\ opRes.api = "none"
    /\ opRes' = [api |-> "lib"] @@ open_file_result(opPath, opPtr)
    /\ UNCHANGED <<opPath, opPtr, lifeVars, iterVars, accVars, navVars, concVars>>

NextOpen == Call_WzCtx_open_file \/ Call_open_file

\* ------------------------------------------------------ child iterators
\* node.rs Node<T>::next: with data Some and index < len, the index is
\* advanced first and child_at is called on the advanced index.
Node_next(index, tag, nlen, failset, st) ==
    IF index >= WzNode_len(tag, nlen, st) THEN [index |-> index, item |-> None]
    ELSE [index |-> index + 1,
          item |-> child_at(tag, nlen, index + 1, (index + 1) \in failset)]

\* lib.rs get_len and open_node_at of *mut wznode.
get_len(tag, nlen, st) ==
    LET r == wz_get_len(tag, nlen, st) IN IF r.ret # 0 THEN 0 ELSE r.len

open_node_at(tag, nlen, i, fails) ==
    IF wz_open_node_at(tag, nlen, i, fails) THEN Some(i) ELSE None

\* lib.rs Node<T>: iter()/from() set count to get_len() (as i32, the same
\* number for the lengths drawn here); next() returns None at count 0, else
\* decrements count and opens the child at the decremented count.
Node_from(tag, nlen, st) == get_len(tag, nlen, st)

Node_count_next(count, tag, nlen, failset) ==
    IF count = 0 THEN [index |-> count, item |-> None]
    ELSE [index |-> count - 1,
          item |-> open_node_at(tag, nlen, count - 1, (count - 1) \in failset)]

IterImpls == {"wz", "node", "lib"}

\* The nodes iterated: any tag; children only under a container; any set
\* of in-bounds indices at which the parser's lookup fails.
InitIter ==
    /\ itImpl \in IterImpls
    /\ itTag \in Dtype
    /\ itLen \in 0..MaxLen
    /\ itTag \notin Container => itLen = 0
    /\ itFail \in SUBSET (0..(itLen - 1))
    /\ itIndex = IF itImpl = "lib" THEN Node_from(itTag, itLen, 1) ELSE 0
    /\ itYield = <<>>
    /\ itAfter = <<>>
    /\ itNone = 0
    /\ itPath \in {<<>>, <<47, 97>>}
    /\ itNames \in [0..(itLen - 1) -> NameResults]
    /\ itItems = <<>>

\* The WzNode that child_at(i) hands out, with what name() gives on it.
Item(i) ==
    [idx |-> i, path |-> child_at_path(itPath, itNames[i]), name |-> name(itNames[i])]

\* The caller's record of one next(): the items before the first None
\* (what count() and a for loop see), those after it, the Nones so far.
\* The raw nodes of lib.rs carry no path.
Record(r) ==
    /\ itIndex' = r.index
    /\ itItems' = IF r.item.some /\ itImpl # "lib" THEN Append(itItems, Item(r.item.idx))
                  ELSE itItems
    /\ IF r.item.some THEN
           /\ itNone' = itNone
           /\ IF itNone = 0 THEN itYield' = Append(itYield, r.item.idx) /\ itAfter' = itAfter
              ELSE itAfter' = Append(itAfter, r.item.idx) /\ itYield' = itYield
       ELSE
           /\ itNone' = itNone + 1
           /\ itYield' = itYield /\ itAfter' = itAfter
    /\ UNCHANGED <<itImpl, itTag, itLen, itFail, itPath, itNames, lifeVars, openVars, accVars, navVars, concVars>>

Next_WzNodeIter ==
    /\ itImpl = "wz" /\ itNone < MaxNone
    /\ \E st \in ErrStatus : Record(WzNodeIter_step(itIndex, itTag, itLen, itFail, st))

Next_Node_rs ==
    /\ itImpl = "node" /\ itNone < MaxNone
    /\ \E st \in ErrStatus : Record(Node_next(itIndex, itTag, itLen, itFail, st))

Next_Node_lib ==
    /\ itImpl = "lib" /\ itNone < MaxNone
    /\ Record(Node_count_next(itIndex, itTag, itLen, itFail))

NextIter == Next_WzNodeIter \/ Next_Node_rs \/ Next_Node_lib

\* ------------------------------------------------------ typed accessors
\* The native getters with an out parameter: status 0 and the value written
\* for a node of a fitting tag; otherwise a non-zero status st, the out
\* parameter left as the caller initialised it (0).
NativeGet(valid, tag, v, st) ==
    IF tag \in valid THEN [ret |-> 0, val |-> v] ELSE [ret |-> st, val |-> 0]

wz_get_int(tag, v, st) == NativeGet({I16, I32}, tag, v, st)
wz_get_i64(tag, v, st) == NativeGet({I64}, tag, v, st)
wz_get_f32(tag, v, st) == NativeGet({F32}, tag, v, st)
wz_get_f64(tag, v, st) == NativeGet({F64}, tag, v, st)
wz_get_vec(tag, v, st) == NativeGet({VEC}, tag, v, st)
wz_get_vex_len(tag, v, st) == NativeGet({VEX}, tag, v, st)

\* The native getters that return a pointer: null (FALSE) for a node of
\* another tag.
wz_get_str(tag) == tag = STR
wz_get_img(tag) == tag = IMG

Ok(ret, v) == [kind |-> "Ok", ret |-> ret, val |-> <<v>>]
Err(ret) == [kind |-> "Err", ret |-> ret, val |-> <<>>]

\* wz.rs int32, int64, float32, float64, vec, vex_len: bail! when the
\* status is 1, else Ok of the out parameter.
StatusIsError(ret) == ret = 1

int32(tag, v, st) ==
    LET r == wz_get_int(tag, v, st) IN
    IF StatusIsError(r.ret) THEN Err(r.ret) ELSE Ok(r.ret, r.val)

int64(tag, v, st) ==
    LET r == wz_get_i64(tag, v, st) IN
    IF StatusIsError(r.ret) THEN Err(r.ret) ELSE Ok(r.ret, r.val)

float32(tag, v, st) ==
    LET r == wz_get_f32(tag, v, st) IN
    IF StatusIsError(r.ret) THEN Err(r.ret) ELSE Ok(r.ret, r.val)

float64(tag, v, st) ==
    LET r == wz_get_f64(tag, v, st) IN
    IF StatusIsError(r.ret) THEN Err(r.ret) ELSE Ok(r.ret, r.val)

vec(tag, v, st) ==
    LET r == wz_get_vec(tag, v, st) IN
    IF StatusIsError(r.ret) THEN Err(r.ret) ELSE Ok(r.ret, r.val)

vex_len(tag, v, st) ==
    LET r == wz_get_vex_len(tag, v, st) IN
    IF r.ret = 1 THEN Err(r.ret) ELSE Ok(r.ret, r.val)

\* lib.rs get_vex_len: the count on status 0, else 0.
get_vex_len(tag, v, st) ==
    LET r == wz_get_vex_len(tag, v, st) IN
    IF r.ret = 0 THEN Ok(r.ret, r.val) ELSE Ok(r.ret, 0)

\* wz.rs str: bail! on a null pointer; CStr::to_str()? fails on bytes that
\* are not UTF-8.
str(tag, bytes) ==
    IF ~wz_get_str(tag) THEN [kind |-> "Err", ret |-> 0, val |-> <<>>]
    ELSE IF ~IsUtf8(bytes) THEN [kind |-> "Err", ret |-> 0, val |-> <<>>]
    ELSE [kind |-> "Ok", ret |-> 0, val |-> bytes]

\* Unsigned numbers as little-endian base-256 digits without leading
\* zeros, so that a u32 and a product of u32s are both exact.
RECURSIVE Digits(_)
Digits(n) == IF n = 0 THEN <<>> ELSE <<n % 256>> \o Digits(n \div 256)

RECURSIVE Trim(_)
Trim(x) ==
    IF x = <<>> THEN <<>>
    ELSE IF x[Len(x)] = 0 THEN Trim(SubSeq(x, 1, Len(x) - 1))
    ELSE x

RECURSIVE MulSmall(_, _, _)
MulSmall(x, m, carry) ==
    IF x = <<>> THEN Digits(carry)
    ELSE LET t == Head(x) * m + carry IN <<t % 256>> \o MulSmall(Tail(x), m, t \div 256)

RECURSIVE Add(_, _, _)
Add(x, y, carry) ==
    IF x = <<>> /\ y = <<>> THEN Digits(carry)
    ELSE LET a == IF x = <<>> THEN 0 ELSE Head(x)
             b == IF y = <<>> THEN 0 ELSE Head(y)
             t == a + b + carry
         IN <<t % 256>> \o Add(IF x = <<>> THEN x ELSE Tail(x),
                               IF y = <<>> THEN y ELSE Tail(y), t \div 256)

\* The mathematical product.
RECURSIVE Mul(_, _)
Mul(x, y) ==
    IF y = <<>> THEN <<>>
    ELSE Trim(Add(MulSmall(x, Head(y), 0), <<0>> \o Mul(x, Tail(y)), 0))

U32Bytes == 4

\* A number fits a u32; the u32 a number wraps to.
FitsU32(x) == Len(x) <= U32Bytes
WrapU32(x) == Trim(SubSeq(x, 1, IF Len(x) < U32Bytes THEN Len(x) ELSE U32Bytes))

\* u32 * u32 as the build compiles it: with overflow checks (the debug
\* profile) an overflow panics, without them (release) the product wraps.
MulU32(a, b, checked) ==
    LET m == Mul(a, b) IN
    IF FitsU32(m) THEN [panic |-> FALSE, val |-> m]
    ELSE IF checked THEN [panic |-> TRUE, val |-> <<>>]
    ELSE [panic |-> FALSE, val |-> WrapU32(m)]

\* wz.rs img (and libwz.rs get_img): bail! (None) on a null pointer; else
\* len = (w * h * 4) as usize, and len bytes are copied into the Vec.
img(tag, w, h, checked) ==
    IF ~wz_get_img(tag) THEN [kind |-> "Err", ret |-> 0, val |-> <<>>]
    ELSE LET wh == MulU32(w, h, checked) IN
         IF wh.panic THEN [kind |-> "panic", ret |-> 0, val |-> <<>>]
         ELSE LET len == MulU32(wh.val, Digits(4), checked) IN
              IF len.panic THEN [kind |-> "panic", ret |-> 0, val |-> <<>>]
              ELSE [kind |-> "Ok", ret |-> 0, val |-> <<w, h, len.val>>]

Vals == {0, 7}
Strs == {<<>>, <<97>>, <<255>>}
\* Image dimensions: small ones, 2^15, 2^16, 2^30 and u32::MAX.
Dims == {Digits(0), Digits(1), Digits(2), Digits(32768), Digits(65536),
         Digits(1073741824), <<255, 255, 255, 255>>}

InitAcc ==
    /\ accTag \in Dtype
    /\ accLen \in 0..MaxLen
    /\ accTag \notin Container => accLen = 0
    /\ accRes = NoRes
    /\ accNode \in {[pointer |-> 1, path |-> q] : q \in {<<>>, <<47, 97>>}}
    /\ accPrev = "none"

\* The wrappers around the node: a live WzCtx, the WzFile opened through it
\* and the leaked root WzNode.
OpenedLife ==
    /\ ctxSt = "live"
    /\ ctxFrees = 0
    /\ file = [f \in Files |-> IF f = 1 THEN [NoFile EXCEPT !.st = "live"] ELSE NoFile]
    /\ node = [n \in Nodes |-> IF n = 1 THEN NewNode(1, TRUE, <<accTag, accLen>>) ELSE NoNode]
    /\ iter = NoIter
    /\ aborted = "no"

\* A call that zeroes the wrapper's pointer when it fails.
SelfAfter_Poison(self, r) == IF r.kind = "Err" THEN [self EXCEPT !.pointer = 0] ELSE self

\* The WzNode after an accessor call: every accessor takes &self and
\* assigns no field, whatever it returns.
SelfAfter(self, r) == self

\* One accessor call on the node; accRes keeps the call and what it gave.
Returns(op, arg, r) ==
    /\ accRes' = [op |-> op, arg |-> arg, kind |-> r.kind, ret |-> r.ret, val |-> r.val]
    /\ accNode' = SelfAfter(accNode, r)
    /\ accPrev' = accRes.kind
    /\ UNCHANGED <<accTag, accLen, lifeVars, openVars, iterVars, navVars, concVars>>

Call_int32 == \E v \in Vals, st \in ErrStatus : Returns("int32", v, int32(accTag, v, st))
Call_int64 == \E v \in Vals, st \in ErrStatus : Returns("int64", v, int64(accTag, v, st))
Call_float32 == \E v \in Vals, st \in ErrStatus : Returns("float32", v, float32(accTag, v, st))
Call_float64 == \E v \in Vals, st \in ErrStatus : Returns("float64", v, float64(accTag, v, st))
Call_vec == \E v \in Vals, st \in ErrStatus : Returns("vec", v, vec(accTag, v, st))
Call_vex_len == \E v \in Vals, st \in ErrStatus : Returns("vex_len", v, vex_len(accTag, v, st))
Call_get_vex_len ==
    \E v \in Vals, st \in ErrStatus : Returns("get_vex_len", v, get_vex_len(accTag, v, st))
Call_str == \E b \in Strs : Returns("str", 0, str(accTag, b))
Call_img ==
    \E w \in Dims, h \in Dims, checked \in BOOLEAN :
       Returns("img", <<w, h>>, img(accTag, w, h, checked))

Call_name ==
    \E nm \in NameResults :
       Returns("name", 0, [kind |-> name(nm).kind, ret |-> 0, val |-> name(nm).val])

\* dtype: Ok(FromPrimitive::from_u8(wz_get_type(..))), the tag itself for
\* the fourteen known tags.
Call_dtype == Returns("dtype", 0, Ok(0, accTag))

Call_len ==
    \E st \in ErrStatus :
       Returns("len", 0, Ok(wz_get_len(accTag, accLen, st).ret, WzNode_len(accTag, accLen, st)))

Call_child_at ==
    \E i \in 0..(MaxLen + 1), fails \in BOOLEAN :
       LET c == child_at(accTag, accLen, i, fails) IN
       Returns("child_at", i, [kind |-> IF c.some THEN "Some" ELSE "None", ret |-> 0,
                               val |-> IF c.some THEN <<c.idx>> ELSE <<>>])

NextAcc ==
    \/ Call_int32 \/ Call_int64 \/ Call_float32 \/ Call_float64 \/ Call_vec
    \/ Call_vex_len \/ Call_get_vex_len \/ Call_str \/ Call_img
    \/ Call_name \/ Call_dtype \/ Call_len \/ Call_child_at

\* ------------------------------------------------------- path navigation
\* Argument bytes: NUL, '/', 'a', 'b'. All are ASCII, so every sequence of
\* them is a &str.
NavBytes == {0, 47, 97, 98}

NavArgs == UNION {[1..k -> NavBytes] : k \in 0..MaxArgLen}

\* The native tree: every node above depth MaxDepth is an array with the
\* children "a" and "ab"; the nodes at depth MaxDepth are leaves. A
\* position is the chain of child names from the root.
ChildNames == {<<97>>, <<97, 98>>}

NativeTag(pos) == IF Len(pos) < MaxDepth THEN ARY ELSE STR

\* The '/'-delimited segments of a path.
RECURSIVE Split(_)
Split(p) ==
    IF p = <<>> THEN << <<>> >>
    ELSE LET rest == Split(Tail(p)) IN
         IF Head(p) = 47 THEN << <<>> >> \o rest
         ELSE << <<Head(p)>> \o Head(rest) >> \o Tail(rest)

NotFound == [found |-> FALSE, pos |-> <<>>]

\* The native multi-segment lookup: segment by segment from pos; null as
\* soon as a segment names no child or the node has no children.
RECURSIVE Walk(_, _)
Walk(pos, segs) ==
    IF segs = <<>> THEN [found |-> TRUE, pos |-> pos]
    ELSE IF NativeTag(pos) \in Container /\ Head(segs) \in ChildNames
         THEN Walk(Append(pos, Head(segs)), Tail(segs))
         ELSE NotFound

\* wz_open_node(node, path) on a C string: the bytes before the terminator.
wz_open_node_path(pos, cstr) == Walk(pos, Split(SubSeq(cstr, 1, Len(cstr) - 1)))

\* The path without the parent's part.
child_path_NoParent(self_path, p) == <<47>> \o p

\* format!("{}/{}", self_path, path).
child_path(self_path, p) == self_path \o <<47>> \o p

\* wz.rs WzNode::child: CString::new(path).unwrap() panics on an interior
\* NUL; else wz_open_node, Some(Box<WzNode>) with the child path for a
\* non-null result, None for null.
child(self, p) ==
    LET c == CStringNew(p) IN
    IF ~c.ok THEN [out |-> "panic", node |-> self]
    ELSE LET n == wz_open_node_path(self.pos, c.bytes) IN
         IF n.found THEN [out |-> "Some",
                          node |-> [pos |-> n.pos, path |-> child_path(self.path, p)]]
         ELSE [out |-> "None", node |-> self]

\* lib.rs open_node of *mut wznode: the same unwrap, Some(node) for a
\* non-null result; a raw node has no diagnostic path.
open_node(self, p) ==
    LET c == CStringNew(p) IN
    IF ~c.ok THEN [out |-> "panic", node |-> self]
    ELSE LET n == wz_open_node_path(self.pos, c.bytes) IN
         IF n.found THEN [out |-> "Some", node |-> [pos |-> n.pos, path |-> <<>>]]
         ELSE [out |-> "None", node |-> self]

NavFrame == UNCHANGED <<lifeVars, openVars, iterVars, accVars, concVars>>

\* n.child(p) on the node navigated to; the caller goes on from the child
\* it got. A panic ends the caller.
Call_child ==
    /\ navRes.out # "panic"
    /\ \E p \in NavArgs :
          LET r == child(navNode, p) IN
          /\ navRes' = [op |-> "child", arg |-> p, out |-> r.out, self |-> navNode]
          /\ navNode' = r.node
          /\ navArg' = IF r.out # "Some" THEN navArg
                        ELSE IF navNode = RootNode THEN p
                        ELSE navArg \o <<47>> \o p
    /\ NavFrame

\* node.open_node(p) on the raw node at the same position; the result is
\* looked at and let go.
Call_open_node ==
    /\ navRes.out # "panic"
    /\ \E p \in NavArgs :
          LET r == open_node(navNode, p) IN
          navRes' = [op |-> "open_node", arg |-> p, out |-> r.out, self |-> navNode]
    /\ UNCHANGED <<navNode, navArg>>
    /\ NavFrame

NextNav == Call_child \/ Call_open_node

\* ---------------------------------------------- the global context (lib.rs)
\* A cell whose initializer every caller that finds it unset runs.
get_or_init_Racy(st) == IF st = "set" THEN "get" ELSE "run"

\* once_cell::sync::OnceCell::get_or_init: the first caller runs the
\* initializer, a caller arriving while it runs waits, a later one gets
\* the stored value.
get_or_init(st) ==
    CASE st = "empty" -> "run"
      [] st = "running" -> "wait"
      [] st = "set" -> "get"

ConcFrame == UNCHANGED <<lifeVars, openVars, iterVars, accVars, navVars>>

\* open_file entered by thread t: path.to_str().unwrap() and
\* CString::new(..).expect("path") panic on a bad path, before the context
\* is touched; the panic ends the thread.
Enter_open_file(t) ==
    /\ thr[t].pc = "idle" /\ thr[t].calls < MaxCalls
    /\ \E p \in Paths, ptr \in BOOLEAN :
          thr' = [thr EXCEPT ![t].pc = IF open_file_result(p, ptr).out = "panic"
                                       THEN "panicked" ELSE "get"]
    /\ UNCHANGED <<cell, mutex, initCalls, passed>>
    /\ ConcFrame

\* init_ctx: INSTANCE.get_or_init(..) as thread t reaches it.
Call_get_or_init(t) ==
    /\ thr[t].pc = "get"
    /\ LET todo == get_or_init(cell.st) IN
       /\ todo # "wait"
       /\ IF todo = "run" THEN
              /\ cell' = [cell EXCEPT !.st = "running"]
              /\ thr' = [thr EXCEPT ![t].pc = "init"]
          ELSE
              /\ cell' = cell
              /\ thr' = [thr EXCEPT ![t].pc = "lock", ![t].ctx = cell.ctx]
    /\ UNCHANGED <<mutex, initCalls, passed>>
    /\ ConcFrame

\* The initializer: wz_init_ctx(), its handle stored in the cell as
\* Arc<Mutex<UnsafeSend<*mut wzctx>>>. Each native call makes a new handle.
Run_initializer(t) ==
    /\ thr[t].pc = "init"
    /\ initCalls' = initCalls + 1
    /\ cell' = [st |-> "set", ctx |-> initCalls + 1]
    /\ thr' = [thr EXCEPT ![t].pc = "lock", ![t].ctx = initCalls + 1]
    /\ UNCHANGED <<mutex, passed>>
    /\ ConcFrame

\* .lock().unwrap().0 as the argument of wz_open_file: t takes the mutex
\* (never poisoned: no panic happens under it), reads the handle, and the
\* native call starts; the guard is a temporary of the let statement.
Lock_and_call(t) ==
    /\ thr[t].pc = "lock" /\ mutex = 0
    /\ mutex' = t
    /\ passed' = passed \cup {thr[t].ctx}
    /\ thr' = [thr EXCEPT ![t].pc = "native"]
    /\ UNCHANGED <<cell, initCalls>>
    /\ ConcFrame

\* wz_open_file returns to t.
Return_wz_open_file(t) ==
    /\ thr[t].pc = "native"
    /\ thr' = [thr EXCEPT ![t].pc = "drop"]
    /\ UNCHANGED <<cell, mutex, initCalls, passed>>
    /\ ConcFrame

\* End of the let statement: the MutexGuard temporary is dropped; the
\* match on f follows and open_file returns.
Drop_guard(t) ==
    /\ thr[t].pc = "drop"
    /\ mutex' = 0
    /\ thr' = [thr EXCEPT ![t].pc = "idle", ![t].calls = @ + 1]
    /\ UNCHANGED <<cell, initCalls, passed>>
    /\ ConcFrame

NextConc ==
    \/ \E t \in Threads : Enter_open_file(t)
    \/ \E t \in Threads : Call_get_or_init(t)
    \/ \E t \in Threads : Run_initializer(t)
    \/ \E t \in Threads : Lock_and_call(t)
    \/ \E t \in Threads : Return_wz_open_file(t)
    \/ \E t \in Threads : Drop_guard(t)

NextLife ==
    \/ WzCtx_new
    \/ WzCtx_open_file
    \/ Drop_WzCtx
    \/ \E f \in Files : WzFile_open_root(f)
    \/ \E f \in Files : Drop_WzFile(f)
    \/ \E n \in Nodes : WzNode_child(n)
    \/ \E n \in Nodes : WzNode_child_at(n)
    \/ \E n \in Nodes : shrink(n)
    \/ \E n \in Nodes : Drop_WzNode(n)
    \/ \E n \in Nodes : WzNode_iter(n)
    \/ WzNodeIter_next
    \/ Drop_WzNodeIter

Next == NextLife

\* The context, its archives and their roots alone.
NextArch ==
    \/ WzCtx_new
    \/ WzCtx_open_file
    \/ Drop_WzCtx
    \/ \E f \in Files : WzFile_open_root(f)
    \/ \E f \in Files : Drop_WzFile(f)

Init == InitLife /\ IdleOpen /\ IdleIter /\ IdleAcc /\ IdleNav /\ IdleConc

Spec == Init /\ [][Next]_vars

SpecArch == Init /\ [][NextArch]_vars

Init_Open == InitOpen /\ InitLife /\ IdleIter /\ IdleAcc /\ IdleNav /\ IdleConc

SpecOpen == Init_Open /\ [][NextOpen]_vars

Init_Iter == InitIter /\ InitLife /\ IdleOpen /\ IdleAcc /\ IdleNav /\ IdleConc

SpecIter == Init_Iter /\ [][NextIter]_vars

Init_Acc == InitAcc /\ OpenedLife /\ IdleOpen /\ IdleIter /\ IdleNav /\ IdleConc

SpecAcc == Init_Acc /\ [][NextAcc]_vars

Init_Nav == IdleNav /\ InitLife /\ IdleOpen /\ IdleIter /\ IdleAcc /\ IdleConc

SpecNav == Init_Nav /\ [][NextNav]_vars

Init_Conc == IdleConc /\ InitLife /\ IdleOpen /\ IdleIter /\ IdleAcc /\ IdleNav

SpecConc == Init_Conc /\ [][NextConc]_vars

\* ------------------------------------------------------------- lifecycle
\* C1: every native handle a wrapper acquired is released by its close
\* routine exactly once: never twice, and once when the wrapper is gone.
C1_ReleasedExactlyOnce ==
    /\ ctxFrees <= 1 /\ (ctxSt = "dropped" => ctxFrees = 1)
    /\ \A f \in Files :
          file[f].closes <= 1 /\ (file[f].st = "dropped" => file[f].closes = 1)
    /\ \A n \in Nodes :
          node[n].closes <= 1 /\ (node[n].st = "dropped" => node[n].closes = 1)

\* C2: no state has the context released while an archive opened from it
\* is still live.
C2_ArchivesClosedBeforeContext == \A f \in Files : ~FileDangling(f)

\* C13: dropping a WzFile opened through a live WzCtx releases that file's
\* handle and nothing else: the context stays live with its handle not
\* freed, every other file and every node wrapper is as before, so the
\* context can open another archive.
C13_DropFileKeepsCtx ==
    [][\A f \in Files :
          (ctxSt = "live" /\ ctxFrees = 0 /\ file[f].st = "live" /\ file'[f].st = "dropped") =>
              /\ ctxSt' = "live" /\ ctxFrees' = 0
              /\ file'[f].closes = file[f].closes + 1
              /\ \A g \in Files \ {f} : file'[g] = file[g]
              /\ node' = node]_vars

\* An archive was opened through the context after another one, opened
\* through the same context, had been dropped; the context is live.
C13_Witness ==
    /\ ctxSt = "live" /\ ctxFrees = 0
    /\ \E f, g \in Files :
          /\ file[f].st = "dropped" /\ file[f].closes = 1
          /\ file[g].st = "live" /\ file[g].afterDrop

\* C16: making an iterator over a node, consuming it partly or fully and
\* dropping it does not free or invalidate the node: a live WzNode is never
\* one whose memory an iterator's drop has freed.
C16_IterDropKeepsNode ==
    \A n \in Nodes : node[n].st = "live" => ~Freed(n)

\* C3: once a WzFile is dropped, no WzNode obtained from it, and no
\* iterator over one, is left to call into the native layer.
C3_NoNodeSurvivesArchive ==
    /\ \A n \in Nodes : ~NodeDangling(n)
    /\ iter.st = "live" => file[node[iter.base].file].st # "dropped"

\* ------------------------------------------------------------- iteration
\* C4: a fully consumed fresh iterator yields len() items for an ARY or
\* IMG node whose in-bounds lookups all succeed, and none for other tags;
\* for each of the three iterators.
C4_IterCountIsLen ==
    (itImpl \in IterImpls /\ itNone >= 1 /\ itFail = {}) =>
        Len(itYield) = IF itTag \in Container THEN WzNode_len(itTag, itLen, 1) ELSE 0

\* C5: the k-th item an iterator yields (k = 0, 1, ...) is child k: index
\* order from 0, nothing skipped, repeated or out of order.
C5_IterIndexOrder ==
    itImpl \in IterImpls => \A k \in 1..Len(itYield) : itYield[k] = k - 1


\* The index whose lookup the first None of the iteration answered:
\* WzNodeIter counts up from 0, the lib.rs Node<T> down from len - 1.
FirstStop ==
    IF itImpl = "lib" THEN get_len(itTag, itLen, 1) - 1 - Len(itYield) ELSE Len(itYield)

\* C17: when the first None of an iteration comes from a failed lookup at
\* an in-bounds index k, the iterator has stopped: no next() after that
\* None yields a child at an index greater than k.
C17_StopsAtFailedIndex ==
    (itImpl \in {"wz", "lib"} /\ itNone >= 1 /\ FirstStop \in itFail) =>
        \A j \in 1..Len(itAfter) : itAfter[j] <= FirstStop

\* A child whose name the wrapper cannot decode.
BadName(nm) == nm.null \/ ~IsUtf8(nm.bytes)

\* C14: when a child's native name is null or not UTF-8, name() on it
\* fails (no partial text), the node child_at hands out has the path
\* parent.path + "/" + "", and WzNodeIter goes on to the siblings after it:
\* consumed to its end it yields every child.
C14_BadNameKeepsTraversal ==
    /\ \A k \in 1..Len(itItems) :
          LET nm == itNames[itItems[k].idx] IN
          IF BadName(nm)
          THEN /\ itItems[k].name.kind = "Err" /\ itItems[k].name.val = <<>>
               /\ itItems[k].path = itPath \o <<47>>
          ELSE /\ itItems[k].name.kind = "Ok" /\ itItems[k].name.val = nm.bytes
               /\ itItems[k].path = itPath \o <<47>> \o nm.bytes
    /\ (itImpl = "wz" /\ itNone >= 1 /\ itFail = {}) =>
           /\ Len(itItems) = WzNode_len(itTag, itLen, 1)
           /\ \A k \in 1..Len(itItems) : itItems[k].idx = k - 1

\* WzNodeIter went through an array whose first child has an undecodable
\* name, and yielded that child and the sibling after it.
C14_Witness ==
    /\ itImpl = "wz" /\ itLen = 2 /\ itNone >= 1 /\ Len(itItems) = 2
    /\ BadName(itNames[0]) /\ ~itNames[0].null
    /\ itItems[1].idx = 0 /\ itItems[2].idx = 1

\* ------------------------------------------------------------- accessors
\* C6: child_at(i) is None whenever i >= len(), and whenever the node's
\* tag is not ARY or IMG; a node comes back only for a container and an
\* in-bounds index.
C6_ChildAtBounds ==
    accRes.op = "child_at" =>
        \A st \in ErrStatus :
           /\ accRes.arg >= WzNode_len(accTag, accLen, st) => accRes.kind = "None"
           /\ accTag \notin Container => accRes.kind = "None"
           /\ accRes.kind = "Some" =>
                 accTag \in Container /\ accRes.arg < accLen /\ accRes.val = <<accRes.arg>>

\* child_at was called past the end of a container that has children, and
\* gave None.
C6_Witness ==
    /\ accRes.op = "child_at" /\ accTag \in Container /\ accLen > 0
    /\ accRes.arg >= accLen /\ accRes.kind = "None"

NumericAccessors == {"int32", "int64", "float32", "float64", "vec"}

\* C7: a numeric accessor whose native getter returned a non-zero status
\* reports a failure, never a success value.
C7_NonZeroStatusFails ==
    (accRes.op \in NumericAccessors /\ accRes.ret # 0) => accRes.kind = "Err"

ValueAccessors == {"int32", "int64", "float32", "float64", "str", "vec", "img"}

\* The accessor that fits a tag (spec 4.3), "none" for a tag without one.
AccessorOf(tag) ==
    CASE tag \in {I16, I32} -> "int32"
      [] tag = I64 -> "int64"
      [] tag = F32 -> "float32"
      [] tag = F64 -> "float64"
      [] tag = STR -> "str"
      [] tag = VEC -> "vec"
      [] tag = IMG -> "img"
      [] OTHER -> "none"

\* C8: an accessor among int32, int64, float32, float64, string, vector,
\* image succeeds on a node only if it is the one fitting the node's tag.
C8_TagExclusive ==
    (accRes.op \in ValueAccessors /\ accRes.kind = "Ok") => accRes.op = AccessorOf(accTag)

\* C9: the polygon-length accessor returns the native count on status 0 and
\* the plain value 0, not an error, on any other status.
C9_VexLenNonFatal ==
    accRes.op \in {"vex_len", "get_vex_len"} =>
        /\ accRes.kind = "Ok"
        /\ accRes.val = IF accRes.ret = 0 THEN <<accRes.arg>> ELSE <<0>>

\* C18: whenever the native getter gave a non-null pixel pointer, the image
\* accessor returns with a buffer of exactly w * h * 4 bytes, the product
\* taken in the integers: the 32-bit multiplication never wraps.
C18_ImgLenIsProduct ==
    (accRes.op = "img" /\ wz_get_img(accTag)) =>
        /\ accRes.kind = "Ok"
        /\ accRes.val[3] = Mul(Mul(accRes.arg[1], accRes.arg[2]), Digits(4))

\* C15: an accessor call that fails changes nothing: the WzNode keeps its
\* pointer and its path, the native node its tag and children, and the
\* WzFile, WzCtx and every other wrapper are as before, so the calls that
\* follow act on the node they would have acted on.
C15_FailureChangesNothing ==
    [][accRes'.kind = "Err" =>
          /\ accNode' = accNode
          /\ accTag' = accTag /\ accLen' = accLen
          /\ lifeVars' = lifeVars]_vars

\* An accessor succeeded right after another one had failed on the same
\* node, which is still the one of the initial state.
C15_Witness ==
    /\ accPrev = "Err" /\ accRes.kind = "Ok" /\ accRes.op = "str"
    /\ accNode.pointer = 1 /\ node[1].st = "live" /\ ctxSt = "live"

\* ------------------------------------------------------------- open_file
\* C10: a path with an embedded NUL fails with an error value and no native
\* call; a null native result fails with another, distinguishable failure
\* value; a file is returned only for a non-null native handle.
C10_OpenOutcomes ==
    opRes.api # "none" =>
        /\ HasNul(opPath) => opRes.out = "Err" /\ ~opRes.native
        /\ (~HasNul(opPath) /\ ~opPtr) => opRes.out \in {"OkNone", "None"} /\ opRes.native
        /\ opRes.out \in {"OkSome", "Some"} => opPtr /\ ~HasNul(opPath) /\ opRes.native

\* ------------------------------------------------------------ navigation
\* C11: child(path) never aborts the process, whatever the path: a path
\* that names nothing and a path with an embedded NUL give None or a
\* failure value, not a panic.
C11_ChildNeverAborts ==
    navRes.op \in {"child", "open_node"} => navRes.out \in {"Some", "None", "Err"}

\* C12: the node n.child(p) returns has the diagnostic path n.path + "/" + p,
\* and the node reached by a chain of child calls is the node (position in
\* the native tree, hence name, tag and value, and diagnostic path) that
\* one child call on the root with the '/'-joined arguments returns.
C12_PathRoundTrip ==
    /\ (navRes.op = "child" /\ navRes.out = "Some") =>
           navNode.path = navRes.self.path \o <<47>> \o navRes.arg
    /\ navNode # RootNode =>
           LET one == child(RootNode, navArg) IN
           one.out = "Some" /\ one.node = navNode

\* Three child calls of one segment each led to a node at depth three.
C12_Witness ==
    /\ Len(navNode.pos) = 3 /\ Len(Split(navArg)) = 3
    /\ navRes.op = "child" /\ navRes.out = "Some" /\ Len(Split(navRes.arg)) = 1
    /\ Len(navRes.self.pos) = 2 /\ navRes.self.path # <<>>

\* ------------------------------------------------------- global context
InNative == {t \in Threads : thr[t].pc = "native"}

\* C19: under every interleaving of open_file calls, wz_init_ctx is called
\* at most once, every wz_open_file call is passed the one handle the cell
\* holds, and a thread inside wz_open_file holds the mutex, so at most one
\* thread is inside wz_open_file at a time.
C19_OneContextOneCaller ==
    /\ initCalls <= 1
    /\ \A c \in passed : cell.st = "set" /\ c = cell.ctx
    /\ \A t \in InNative : mutex = t
    /\ Cardinality(InNative) <= 1

\* One thread is inside wz_open_file while another, past init_ctx, waits
\* for the mutex; a call has already completed before.
C19_Witness ==
    /\ initCalls = 1
    /\ \E t, u \in Threads :
          /\ thr[t].pc = "native" /\ thr[u].pc = "lock" /\ mutex = t
          /\ thr[u].calls >= 1

====
